---- MODULE Spec2Model ----
(***************************************************************************)
(* cmdcache (src/main.go): a command-line memoization tool.  One           *)
(* invocation either replays the cache entry of its command line (lookup   *)
(* Fresh) or runs the command, tees its stdout/stderr through two          *)
(* Timestamped writers into one channel, and lets the plex goroutine       *)
(* encode the records into a gzip-compressed entry file.                   *)
(*                                                                         *)
(* The model follows one cache key.  Invocations for that key run one      *)
(* after another; the entry file, its last-modified time and the clock     *)
(* persist between them.  Of an invocation that runs at the same time as   *)
(* another one only the lookup is followed (SpecPeer).                     *)
(* The cache directory is assumed to exist and to                          *)
(* be writable (every filesystem error the code ignores with `_` is        *)
(* outside the model).  Time is counted in units of 1/UnitsPerMs ms.       *)
(***************************************************************************)
EXTENDS Integers, Sequences, FiniteSets, TLC

(* ------------------------------ bounds --------------------------------- *)
\* invocations of the program for the key, one after another
MaxRuns == 2
\* bytes the child process writes to each of its two streams
MaxOut == 2
\* bytes one Read of a copy goroutine returns at most (io.Copy's buffer)
BufSize == 2
\* clock units that pass while the producers of one capture are writing
MaxTicks == 2
\* clock units per millisecond (the resolution below what the code truncates)
UnitsPerMs == 2
\* records of an entry file that exists before the first invocation
MaxInitRecs == 2

(* ------------------------- program constants --------------------------- *)
\* stream tags: OpenTS(1, ch), OpenTS(2, ch), BufRecord{Id: 127}
StdOut == 1
StdErr == 2
ExitStatus == 127
\* -ttl default: never expire
NoTTL == -1
\* exit status of a Go program that dies with an unrecovered panic
PanicStatus == 2

Streams == {StdOut, StdErr}
Millisecond == UnitsPerMs
Second == 1000 * Millisecond

\* values the environment may choose
\* the k-th byte the child writes to stream s: 'a', 'b', ... on stdout and
\* 'q', 'r', ... on stderr.  The code never looks at a payload byte, and bytes
\* that all differ make every lost, misplaced or torn byte visible
ByteAt(s, k) == IF s = StdOut THEN 96 + k ELSE 112 + k
Bytes == {ByteAt(s, k) : s \in Streams, k \in 1..MaxOut}
TTLs == {NoTTL, 0, 1}
\* exit codes of the child
ChildStatuses == {0, 3, 255}
\* time between the end of one invocation and the lookup of the next
Gaps == {0, Second - 1, Second, 2 * Second}
\* the one marker standing for the text "cmd.Start() failed with ..."
StartFailedMsg == <<0>>

(* ------------------------------ helpers -------------------------------- *)
Min(a, b) == IF a < b THEN a ELSE b

\* Go's integer division truncates toward zero (\div floors)
TruncDiv(a, b) == IF a >= 0 THEN a \div b ELSE -((-a) \div b)

\* a conversion to a signed byte's range
ByteOfMut(x) == x % 128

\* Go's byte(x) conversion of an int
ByteOf(x) == x % 256

Prefix(s, n) == SubSeq(s, 1, Min(n, Len(s)))
Drop(s, n) == SubSeq(s, n + 1, Len(s))

RECURSIVE SeqsUpTo(_, _)
\* all sequences over S of length at most n
SeqsUpTo(S, n) ==
    IF n = 0 THEN {<<>>}
    ELSE LET shorter == SeqsUpTo(S, n - 1)
         IN  shorter \cup {Append(s, x) : s \in shorter, x \in S}

RECURSIVE Digits(_)
\* decimal digits of a natural number as characters '0'..'9' (48..57)
Digits(n) == IF n < 10 THEN <<48 + n>> ELSE Append(Digits(n \div 10), 48 + (n % 10))

\* fmt.Sprintf("%v", i) of an integer: '-' (45) when negative, then the digits
Sprintf(i) == IF i < 0 THEN <<45>> \o Digits(-i) ELSE Digits(i)

IsDigit(c) == c >= 48 /\ c <= 57

RECURSIVE ScanDigits(_, _)
\* the number read from the leading digits of s, continuing from acc
ScanDigits(s, acc) ==
    IF s = <<>> \/ ~IsDigit(Head(s)) THEN acc
    ELSE ScanDigits(Tail(s), 10 * acc + (Head(s) - 48))

\* fmt.Sscanf(s, "%d", &d): d stays 0 when no number can be read
Sscanf(s) ==
    IF s = <<>> THEN 0
    ELSE IF Head(s) = 45 THEN -ScanDigits(Tail(s), 0)
    ELSE ScanDigits(s, 0)

\* DurationOf: the stored T read back through its printed form
DurationOf(i) == Sscanf(Sprintf(i))

\* BufRecord as it is stored in an entry
BufRecord(t, id, buf) == [T |-> t, Id |-> id, Buf |-> buf]

(* ------------------------------- state --------------------------------- *)
VARIABLES
    now,        \* the clock, in units since the start of the running process
    entry,      \* the entry file at `location`: exists, mtime, content
    origin,     \* history: the capture session that produced the entry, if any
    runs,       \* invocations started so far
    prev,       \* history: what the previous invocation did, if it was a replay
    peer,       \* what the os.Stat of a concurrent invocation for the key found
    ttl,        \* *ttlPtr
    delay,      \* *delayPtr
    keepNeg,    \* *keepNeg
    pc,         \* position of the main goroutine
    found,      \* what the lookup found: "none" yet, "fresh", "stale" or "absent"
    exitCode,   \* the exitCode variable of the branch taken
    panicking,  \* the value main panicked with: "none", "Exit" or "runtime"
    closed,     \* deferred Close calls that have run
    status,     \* exit status of the process once pc = "exited"
    stdout,     \* bytes written to os.Stdout by this invocation
    stderr,     \* bytes written to os.Stderr by this invocation
    rpos,       \* replay: records decoded so far
    gzOK,       \* replay: gzip.NewReader returned a reader (not nil)
    linked,     \* capture: the file f still is the directory entry
    started,    \* capture: "none", "ok" or "failed": the result of cmd.Start()
    child,      \* "none", "running" or "exited"
    childStatus,\* what status.ExitStatus() reports once the child has exited
    childOut,   \* history: bytes the child wrote to each of its streams
    pipe,       \* bytes in each pipe, written and not yet read
    rdClosed,   \* the read end of each pipe (stdoutIn, stderrIn) is closed
    cpc,        \* position of each copy goroutine
    cbuf,       \* io.Copy's buffer of each copy goroutine
    crec,       \* the BufRecord each Timestamped.Write is sending
    ts,         \* Timestamped.t of each producer
    cseq,       \* history: Write calls made by each producer
    ppc,        \* position of the plex goroutine
    pending,    \* records plex has received and not yet written
    sink,       \* records written to compressedStdout
    handOrder,  \* history: records in the order they were handed over on ch
    encOrder    \* history: records in the order plex encoded them

fsVars == <<entry, origin>>
flagVars == <<ttl, delay, keepNeg>>
\* what no step of the running invocation changes, and the concurrent one
ctxVars == <<flagVars, prev, peer>>
mainVars == <<pc, found, exitCode, panicking, closed, status>>
outVars == <<stdout, stderr>>
replayVars == <<rpos, gzOK>>
childVars == <<child, childStatus, childOut, pipe>>
copyVars == <<cpc, cbuf, crec, ts, cseq>>
plexVars == <<ppc, pending, sink, handOrder, encOrder>>
captureVars == <<linked, started, rdClosed, childVars, copyVars, plexVars>>
vars == <<now, fsVars, runs, ctxVars, mainVars, outVars, replayVars,
          captureVars>>

(* ---------------------------- the entry file --------------------------- *)
\* hdr: the file starts with a gzip header; recs: the records that decode;
\* tail: what follows them, a clean end ("eof") or a truncated or corrupt
\* rest ("err")
NoEntry == [exists |-> FALSE, mtime |-> 0, hdr |-> FALSE, recs |-> <<>>, tail |-> "err"]

\* records an entry file written before the first invocation may hold
InitRecs ==
    { BufRecord(0, StdOut, <<97>>), BufRecord(1, StdErr, <<98>>),
      BufRecord(0, ExitStatus, <<3>>), BufRecord(0, ExitStatus, <<0>>) }

InitEntries ==
    {NoEntry} \cup
    { [exists |-> TRUE, mtime |-> 0, hdr |-> h, recs |-> r, tail |-> t] :
        h \in BOOLEAN, r \in SeqsUpTo(InitRecs, MaxInitRecs), t \in {"eof", "err"} }

\* no capture session of this behaviour produced the entry
NoOrigin == [kind |-> "none", out |-> <<>>, err |-> <<>>, code |-> 0]

\* the previous invocation was no replay, or there was none
NoPrev == [mode |-> "none", out |-> <<>>, err |-> <<>>, status |-> 0]

\* no concurrent invocation has looked the entry up
NoPeer == [found |-> "none", final |-> TRUE]

NoRec == [T |-> 0, Id |-> 0, src |-> 0, n |-> 0, snap |-> <<>>, seq |-> 0]
EmptyBuf == [i \in 1..BufSize |-> 0]

\* the state of one invocation before main has done anything
FreshRun ==
    /\ found = "none" /\ exitCode = 0 /\ panicking = "none" /\ closed = {}
    /\ status = 0 /\ stdout = <<>> /\ stderr = <<>>
    /\ rpos = 0 /\ gzOK = FALSE
    /\ linked = FALSE /\ started = "none" /\ child = "none" /\ childStatus = 0
    /\ childOut = [s \in Streams |-> <<>>]
    /\ pipe = [s \in Streams |-> <<>>]
    /\ rdClosed = [s \in Streams |-> FALSE]
    /\ cpc = [s \in Streams |-> "off"]
    /\ cbuf = [s \in Streams |-> EmptyBuf]
    /\ crec = [s \in Streams |-> NoRec]
    /\ ts = [s \in Streams |-> 0]
    /\ cseq = [s \in Streams |-> 0]
    /\ ppc = "off" /\ pending = <<>> /\ sink = <<>>
    /\ handOrder = <<>> /\ encOrder = <<>>

\* the same state, set by the start of a new process
ResetRun ==
    /\ found' = "none" /\ exitCode' = 0 /\ panicking' = "none" /\ closed' = {}
    /\ status' = 0 /\ stdout' = <<>> /\ stderr' = <<>>
    /\ rpos' = 0 /\ gzOK' = FALSE
    /\ linked' = FALSE /\ started' = "none" /\ child' = "none" /\ childStatus' = 0
    /\ childOut' = [s \in Streams |-> <<>>]
    /\ pipe' = [s \in Streams |-> <<>>]
    /\ rdClosed' = [s \in Streams |-> FALSE]
    /\ cpc' = [s \in Streams |-> "off"]
    /\ cbuf' = [s \in Streams |-> EmptyBuf]
    /\ crec' = [s \in Streams |-> NoRec]
    /\ ts' = [s \in Streams |-> 0]
    /\ cseq' = [s \in Streams |-> 0]
    /\ ppc' = "off" /\ pending' = <<>> /\ sink' = <<>>
    /\ handOrder' = <<>> /\ encOrder' = <<>>

Init ==
    /\ now = 0
    /\ entry \in InitEntries
    /\ origin = NoOrigin
    /\ runs = 0
    /\ prev = NoPrev
    /\ peer = NoPeer
    /\ ttl = NoTTL /\ delay = FALSE /\ keepNeg = FALSE
    /\ pc = "idle"
    /\ FreshRun

(* --------------------------- main: flags, lookup ----------------------- *)
\* flag.Parse(): a new invocation of the program for the key, some time after
\* the previous one ended.  The clock is counted from the start of the new
\* process, which moves the entry's mtime back by the time that has passed
InvokeWith(ttls, delays, keeps) ==
    /\ pc \in {"idle", "exited"}
    /\ runs < MaxRuns
    /\ runs' = runs + 1
    /\ prev' = IF pc = "exited" /\ found = "fresh"
               THEN [mode |-> "replay", out |-> stdout, err |-> stderr, status |-> status]
               ELSE NoPrev
    /\ peer' = NoPeer
    /\ ttl' \in ttls /\ delay' \in delays /\ keepNeg' \in keeps
    /\ pc' = "stat"
    /\ ResetRun
    /\ \E gap \in Gaps :
        entry' = IF entry.exists THEN [entry EXCEPT !.mtime = @ - (now + gap)] ELSE entry
    /\ now' = 0
    /\ UNCHANGED origin

\* an invocation with any flags
Invoke == InvokeWith(TTLs, BOOLEAN, BOOLEAN)

\* int(time.Now().Sub(stat.ModTime()) / time.Second)
Age == TruncDiv(now - entry.mtime, Second)

\* the comparison written with < in place of <=
FreshMut == entry.exists /\ (ttl = NoTTL \/ Age < ttl)

\* the condition of the if statement that chooses replay
Fresh == entry.exists /\ (ttl = NoTTL \/ Age <= ttl)

\* the branch of main taken: the if branch replays, the else branch captures
mode == IF found = "fresh" THEN "replay" ELSE IF found = "none" THEN "none" ELSE "capture"

Lookup ==
    /\ pc = "stat"
    /\ found' = IF Fresh THEN "fresh" ELSE IF entry.exists THEN "stale" ELSE "absent"
    /\ pc' = IF Fresh THEN "open" ELSE "create"
    /\ UNCHANGED <<now, fsVars, runs, ctxVars, exitCode, panicking, closed,
                   status, outVars, replayVars, captureVars>>

(* ------------------------------ main: replay --------------------------- *)
\* an open that touches the file: its last-modified time becomes the time of
\* the replay
OpenEntryMut ==
    /\ pc = "open"
    /\ gzOK' = entry.hdr
    /\ rpos' = 0
    /\ pc' = "decode"
    /\ entry' = [entry EXCEPT !.mtime = now]
    /\ UNCHANGED <<now, origin, runs, ctxVars, found, exitCode, panicking,
                   closed, status, outVars, captureVars>>

\* os.Open, gzip.NewReader (nil when the file has no gzip header), NewDecoder
OpenEntry ==
    /\ pc = "open"
    /\ gzOK' = entry.hdr
    /\ rpos' = 0
    /\ pc' = "decode"
    /\ UNCHANGED <<now, fsVars, runs, ctxVars, found, exitCode, panicking,
                   closed, status, outVars, captureVars>>

\* time.Sleep(time.Duration(T) * time.Millisecond): returns at once when T <= 0
SleepUnits(rec) ==
    IF delay /\ DurationOf(rec.T) > 0 THEN DurationOf(rec.T) * Millisecond ELSE 0

\* a switch with the wrong case label: both streams get the stdout payloads
EmitMut(out, rec, id) == IF rec.Id = StdOut THEN out \o rec.Buf ELSE out

\* switch id: case 1 prints buf to stdout, case 2 prints buf to stderr
Emit(out, rec, id) == IF rec.Id = id THEN out \o rec.Buf ELSE out

\* one turn of the replay loop in which DecodeInterface returns a record
DecodeRecord ==
    /\ pc = "decode" /\ gzOK
    /\ rpos < Len(entry.recs)
    /\ LET rec == entry.recs[rpos + 1] IN
        /\ rpos' = rpos + 1
        /\ now' = now + SleepUnits(rec)
        /\ stdout' = Emit(stdout, rec, StdOut)
        /\ stderr' = Emit(stderr, rec, StdErr)
        /\ IF rec.Id = ExitStatus /\ rec.Buf = <<>>
           THEN \* buf[0] of an empty slice: a runtime panic
                /\ panicking' = "runtime" /\ pc' = "defer_gz"
                /\ UNCHANGED exitCode
           ELSE /\ exitCode' = IF rec.Id = ExitStatus THEN rec.Buf[1] ELSE exitCode
                /\ UNCHANGED <<panicking, pc>>
    /\ UNCHANGED <<fsVars, runs, ctxVars, found, closed, status, gzOK,
                   captureVars>>

\* DecodeInterface returns an error (end of stream or not): panic(Exit{exitCode})
DecodeEnd ==
    /\ pc = "decode" /\ gzOK
    /\ rpos = Len(entry.recs)
    /\ panicking' = "Exit"
    /\ pc' = "defer_gz"
    /\ UNCHANGED <<now, fsVars, runs, ctxVars, found, exitCode, closed,
                   status, outVars, replayVars, captureVars>>

\* gz is a nil *gzip.Reader: the decoder's first Read dereferences it
DecodeNil ==
    /\ pc = "decode" /\ ~gzOK
    /\ panicking' = "runtime"
    /\ pc' = "defer_gz"
    /\ UNCHANGED <<now, fsVars, runs, ctxVars, found, exitCode, closed,
                   status, outVars, replayVars, captureVars>>

(* ------------------------ main: deferred calls, exit ------------------- *)
\* the entry file once compressedStdout.Close() has flushed the sink into it
Flushed == [exists |-> TRUE, mtime |-> now, hdr |-> TRUE, recs |-> sink, tail |-> "eof"]

\* defer gz.Close() (replay) or defer compressedStdout.Close() (capture)
DeferGz ==
    /\ pc = "defer_gz"
    /\ IF mode = "capture"
       THEN /\ closed' = closed \cup {"gz"}
            /\ IF linked
               THEN /\ entry' = Flushed
                    /\ origin' = [kind |-> "capture", out |-> childOut[StdOut],
                                  err |-> childOut[StdErr], code |-> childStatus]
               ELSE UNCHANGED fsVars
       ELSE \* Close of the nil reader panics again and closes nothing
            /\ closed' = IF gzOK THEN closed \cup {"gz"} ELSE closed
            /\ UNCHANGED fsVars
    /\ pc' = "defer_f"
    /\ UNCHANGED <<now, runs, ctxVars, found, exitCode, panicking, status,
                   outVars, replayVars, captureVars>>

\* defer f.Close()
DeferF ==
    /\ pc = "defer_f"
    /\ closed' = closed \cup {"f"}
    /\ pc' = "handleExit"
    /\ UNCHANGED <<now, fsVars, runs, ctxVars, found, exitCode, panicking,
                   status, outVars, replayVars, captureVars>>

\* the exit status the operating system reports for os.Exit(code)
ExitStatusOf(code) == ByteOf(code)

\* os.Exit called where the code panics: no deferred call runs
handleExitMut ==
    /\ pc = "defer_gz"
    /\ status' = IF panicking = "Exit" THEN ExitStatusOf(exitCode) ELSE PanicStatus
    /\ pc' = "exited"
    /\ UNCHANGED <<now, fsVars, runs, ctxVars, found, exitCode, panicking,
                   closed, outVars, replayVars, captureVars>>

\* defer handleExit(): os.Exit(exit.Code), or the panic bubbles up
handleExit ==
    /\ pc = "handleExit"
    /\ status' = IF panicking = "Exit" THEN ExitStatusOf(exitCode) ELSE PanicStatus
    /\ pc' = "exited"
    /\ UNCHANGED <<now, fsVars, runs, ctxVars, found, exitCode, panicking,
                   closed, outVars, replayVars, captureVars>>

(* ----------------------------- main: capture --------------------------- *)
\* the process of this invocation is running
Alive == pc \notin {"idle", "exited"}

\* the entry file right after os.Create: it exists and is empty
Created == [exists |-> TRUE, mtime |-> now, hdr |-> FALSE, recs |-> <<>>, tail |-> "err"]

\* os.Create(location), the pipes, the channels, gzip.NewWriter(f)
Create ==
    /\ pc = "create"
    /\ entry' = Created
    /\ origin' = NoOrigin
    /\ prev' = NoPrev
    /\ linked' = TRUE
    /\ pc' = "opents1"
    /\ UNCHANGED <<now, runs, flagVars, peer, found, exitCode, panicking, closed,
                   status, outVars, replayVars, started, rdClosed, childVars,
                   copyVars, plexVars>>

\* OpenTS(id, ch): &Timestamped{time.Now(), id, c}
OpenTS(s) ==
    /\ pc = (IF s = StdOut THEN "opents1" ELSE "opents2")
    /\ ts' = [ts EXCEPT ![s] = now]
    /\ pc' = (IF s = StdOut THEN "opents2" ELSE "start")
    /\ UNCHANGED <<now, fsVars, runs, ctxVars, found, exitCode, panicking,
                   closed, status, outVars, replayVars, linked, started, rdClosed,
                   childVars, cpc, cbuf, crec, cseq, plexVars>>

\* er := cmd.Start() returns nil: the child runs
StartOK ==
    /\ pc = "start"
    /\ started' = "ok"
    /\ child' = "running"
    /\ pc' = "spawn"
    /\ UNCHANGED <<now, fsVars, runs, ctxVars, found, exitCode, panicking,
                   closed, status, outVars, replayVars, linked, rdClosed,
                   childStatus, childOut, pipe, copyVars, plexVars>>

\* er := cmd.Start() fails: exec closes both ends of the pipes it made
StartFail ==
    /\ pc = "start"
    /\ started' = "failed"
    /\ rdClosed' = [s \in Streams |-> TRUE]
    /\ pc' = "startfailed"
    /\ UNCHANGED <<now, fsVars, runs, ctxVars, found, exitCode, panicking,
                   closed, status, outVars, replayVars, linked, childVars,
                   copyVars, plexVars>>

\* an os.Remove that leaves the file where it is
RemovedMut == entry

\* the directory after os.Remove(location)
Removed == NoEntry

\* if er != nil { os.Remove(location); fmt.Fprintf(os.Stderr, ...) }
RemoveOnStartFail ==
    /\ pc = "startfailed"
    /\ entry' = Removed
    /\ origin' = NoOrigin
    /\ linked' = FALSE
    /\ stderr' = stderr \o StartFailedMsg
    /\ pc' = "spawn"
    /\ UNCHANGED <<now, runs, ctxVars, found, exitCode, panicking, closed,
                   status, stdout, replayVars, started, rdClosed, childVars,
                   copyVars, plexVars>>

\* go plex(...); go func() { io.Copy(stdout, stdoutIn) }(); go func() {
\* io.Copy(stderr, stderrIn) }(): the three go statements in one step (a
\* goroutine that exists and has not run yet is not observable)
Spawn ==
    /\ pc = "spawn"
    /\ ppc' = "recv"
    /\ cpc' = [s \in Streams |-> "read"]
    /\ pc' = "wait"
    /\ UNCHANGED <<now, fsVars, runs, ctxVars, found, exitCode, panicking,
                   closed, status, outVars, replayVars, linked, started, rdClosed,
                   childVars, cbuf, crec, ts, cseq, pending, sink, handOrder,
                   encOrder>>

\* the test of the flag inverted
DiscardMut == keepNeg

\* if !*keepNeg after a non-zero exit
Discard == ~keepNeg

\* a main that stops at the start failure: it exits with code 0 without
\* sending anything on the channel
WaitMut ==
    /\ pc = "wait"
    /\ IF started = "failed"
       THEN /\ exitCode' = 0
            /\ panicking' = "Exit"
            /\ pc' = "defer_gz"
            /\ UNCHANGED rdClosed
       ELSE /\ child = "exited"
            /\ rdClosed' = [s \in Streams |-> TRUE]
            /\ exitCode' = childStatus
            /\ pc' = IF childStatus # 0 /\ Discard THEN "remove" ELSE "sendexit"
            /\ UNCHANGED panicking
    /\ UNCHANGED <<now, fsVars, runs, ctxVars, found, closed,
                   status, outVars, replayVars, linked, started, childVars,
                   copyVars, plexVars>>

\* er = cmd.Wait() and the exit code: Wait returns once the child has exited
\* and closes stdoutIn and stderrIn; after a failed Start it returns at once
\* with an error that is no *exec.ExitError
Wait ==
    /\ pc = "wait"
    /\ IF started = "failed"
       THEN /\ exitCode' = 0
            /\ pc' = "sendexit"
            /\ UNCHANGED rdClosed
       ELSE /\ child = "exited"
            /\ rdClosed' = [s \in Streams |-> TRUE]
            /\ exitCode' = childStatus
            /\ pc' = IF childStatus # 0 /\ Discard THEN "remove" ELSE "sendexit"
    /\ UNCHANGED <<now, fsVars, runs, ctxVars, found, panicking, closed,
                   status, outVars, replayVars, linked, started, childVars,
                   copyVars, plexVars>>

\* os.Remove(location) of a negative result: f stays open and unlinked
RemoveNeg ==
    /\ pc = "remove"
    /\ entry' = Removed
    /\ origin' = NoOrigin
    /\ linked' = FALSE
    /\ pc' = "sendexit"
    /\ UNCHANGED <<now, runs, ctxVars, found, exitCode, panicking, closed,
                   status, outVars, replayVars, started, rdClosed, childVars,
                   copyVars, plexVars>>

\* history of a record: its producer, the number of the Write call that made
\* it, and the bytes that were passed to that call
Handed(rec) == [Id |-> rec.Id, seq |-> rec.seq, d |-> rec.snap]

\* a channel that takes a record while plex is still encoding the previous one
CanReceiveMut == ppc \in {"recv", "marshal"}

\* plex is at rec := <-ch
CanReceive == ppc = "recv"

\* the exit record sent with the tag of a stdout record
ExitRecMut == [T |-> 0, Id |-> StdOut, src |-> 0, n |-> 1,
               snap |-> <<ByteOf(exitCode)>>, seq |-> 1]

\* BufRecord{T: 0, Id: 127, Buf: []byte{byte(exitCode)}}, with its own buffer
ExitRec == [T |-> 0, Id |-> ExitStatus, src |-> 0, n |-> 1,
            snap |-> <<ByteOf(exitCode)>>, seq |-> 1]

\* ch <- BufRecord{...}: the rendezvous of main and plex on the channel
SendExit ==
    /\ pc = "sendexit"
    /\ CanReceive
    /\ pending' = Append(pending, ExitRec)
    /\ handOrder' = Append(handOrder, Handed(ExitRec))
    /\ ppc' = "marshal"
    /\ pc' = "waitfin"
    /\ UNCHANGED <<now, fsVars, runs, ctxVars, found, exitCode, panicking,
                   closed, status, outVars, replayVars, linked, started, rdClosed,
                   childVars, copyVars, sink, encOrder>>

\* <-finished meets finished <- true; plex returns; main panics with Exit
Finished ==
    /\ pc = "waitfin"
    /\ ppc = "signal"
    /\ ppc' = "done"
    /\ panicking' = "Exit"
    /\ pc' = "defer_gz"
    /\ UNCHANGED <<now, fsVars, runs, ctxVars, found, exitCode, closed,
                   status, outVars, replayVars, linked, started, rdClosed,
                   childVars, copyVars, pending, sink, handOrder, encOrder>>

(* ------------------------------ the child ------------------------------ *)
\* the child writes one byte to its stdout or stderr
ChildWrite(s) ==
    /\ child = "running"
    /\ Len(childOut[s]) < MaxOut
    /\ LET b == ByteAt(s, Len(childOut[s]) + 1) IN
        /\ pipe' = [pipe EXCEPT ![s] = Append(@, b)]
        /\ childOut' = [childOut EXCEPT ![s] = Append(@, b)]
    /\ UNCHANGED <<now, fsVars, runs, ctxVars, mainVars, outVars, replayVars,
                   linked, started, rdClosed, child, childStatus, copyVars, plexVars>>

\* the child exits with a code or dies of a signal; its ends of the pipes close
ChildExit ==
    /\ child = "running"
    /\ child' = "exited"
    /\ childStatus' \in ChildStatuses
    /\ UNCHANGED <<now, fsVars, runs, ctxVars, mainVars, outVars, replayVars,
                   linked, started, rdClosed, childOut, pipe, copyVars, plexVars>>

(* ------------------ the copy goroutines: io.Copy, Write ---------------- *)
\* buf with its first Len(chunk) bytes overwritten by chunk
Fill(buf, chunk) == [i \in 1..BufSize |-> IF i <= Len(chunk) THEN chunk[i] ELSE buf[i]]

\* the elapsed time taken from one clock for both producers: the time since
\* the process started
DifMut(s) == TruncDiv(now, Millisecond)

\* int64(tn.Sub(t.t) / time.Millisecond)
Dif(s) == TruncDiv(now - ts[s], Millisecond)

\* what rec.Buf refers to: Buf: d is the caller's slice (src = s: the first n
\* bytes of the copy goroutine's buffer), since copy(data, d) copies nothing
WriteRec(s, chunk) ==
    [T |-> Dif(s), Id |-> s, src |-> s, n |-> Len(chunk), snap |-> chunk,
     seq |-> cseq[s] + 1]

\* one turn of io.Copy up to the channel send of Timestamped.Write: src.Read
\* returns bytes, or an error once Wait has closed the read end, or EOF
CopyRead(s) ==
    /\ Alive /\ cpc[s] = "read"
    /\ IF rdClosed[s]
       THEN /\ cpc' = [cpc EXCEPT ![s] = "done"]
            /\ UNCHANGED <<pipe, cbuf, crec, ts, cseq>>
       ELSE IF pipe[s] # <<>>
       THEN LET chunk == Prefix(pipe[s], BufSize) IN
            /\ pipe' = [pipe EXCEPT ![s] = Drop(@, Len(chunk))]
            /\ cbuf' = [cbuf EXCEPT ![s] = Fill(@, chunk)]
            /\ crec' = [crec EXCEPT ![s] = WriteRec(s, chunk)]
            /\ ts' = [ts EXCEPT ![s] = now]
            /\ cseq' = [cseq EXCEPT ![s] = @ + 1]
            /\ cpc' = [cpc EXCEPT ![s] = "send"]
       ELSE /\ child = "exited"
            /\ cpc' = [cpc EXCEPT ![s] = "done"]
            /\ UNCHANGED <<pipe, cbuf, crec, ts, cseq>>
    /\ UNCHANGED <<now, fsVars, runs, ctxVars, mainVars, outVars, replayVars,
                   linked, started, rdClosed, child, childStatus, childOut, plexVars>>

\* t.ch <- rec: the rendezvous of a copy goroutine and plex on the channel
CopySend(s) ==
    /\ Alive /\ cpc[s] = "send"
    /\ CanReceive
    /\ pending' = Append(pending, crec[s])
    /\ handOrder' = Append(handOrder, Handed(crec[s]))
    /\ ppc' = "marshal"
    /\ cpc' = [cpc EXCEPT ![s] = "live"]
    /\ UNCHANGED <<now, fsVars, runs, ctxVars, mainVars, outVars, replayVars,
                   linked, started, rdClosed, childVars, cbuf, crec, ts, cseq,
                   sink, encOrder>>

\* the MultiWriter's second writer: os.Stdout or os.Stderr gets the same slice
CopyLive(s) ==
    /\ Alive /\ cpc[s] = "live"
    /\ LET d == [i \in 1..crec[s].n |-> cbuf[s][i]] IN
        /\ stdout' = IF s = StdOut THEN stdout \o d ELSE stdout
        /\ stderr' = IF s = StdErr THEN stderr \o d ELSE stderr
    /\ cpc' = [cpc EXCEPT ![s] = "read"]
    /\ UNCHANGED <<now, fsVars, runs, ctxVars, mainVars, replayVars,
                   linked, started, rdClosed, childVars, cbuf, crec, ts, cseq,
                   plexVars>>

(* ------------------------------- plex ---------------------------------- *)
\* the payloads msgpack.Marshal(rec) can read from rec.Buf: the slice of a
\* producer is the copy goroutine's buffer, which that goroutine may be
\* refilling meanwhile (a data race: each byte is the old or the new one)
Payloads(rec) ==
    IF rec.src = 0 THEN {rec.snap}
    ELSE { p \in [1..rec.n -> Bytes \cup {0}] :
             \A i \in 1..rec.n : p[i] \in {rec.snap[i], cbuf[rec.src][i]} }

\* a plex that never leaves its loop
PlexNextMut(rec) == "recv"

\* where plex goes after writing rec: if rec.Id == 127 { finished <- true; return }
PlexNext(rec) == IF rec.Id = ExitStatus THEN "signal" ELSE "recv"

\* msgpack.Marshal(rec) and f.Write(out); the gzip writer puts its header
\* into the file with the first Write and keeps the data until Close
Encode ==
    /\ Alive /\ ppc = "marshal"
    /\ LET rec == Head(pending) IN
        /\ \E p \in Payloads(rec) : sink' = Append(sink, BufRecord(rec.T, rec.Id, p))
        /\ encOrder' = Append(encOrder, Handed(rec))
        /\ ppc' = PlexNext(rec)
    /\ pending' = Tail(pending)
    /\ IF linked /\ sink = <<>>
       THEN entry' = [entry EXCEPT !.hdr = TRUE, !.mtime = now]
       ELSE UNCHANGED entry
    /\ UNCHANGED <<now, origin, runs, ctxVars, mainVars, outVars, replayVars,
                   linked, started, rdClosed, childVars, copyVars, handOrder>>

(* --------------------------- the specification ------------------------- *)
\* the steps of one invocation and of its child
Steps ==
    \/ Lookup
    \/ OpenEntry
    \/ DecodeRecord
    \/ DecodeEnd
    \/ DecodeNil
    \/ DeferGz
    \/ DeferF
    \/ handleExit
    \/ Create
    \/ \E s \in Streams : OpenTS(s)
    \/ StartOK
    \/ StartFail
    \/ RemoveOnStartFail
    \/ Spawn
    \/ Wait
    \/ RemoveNeg
    \/ SendExit
    \/ Finished
    \/ \E s \in Streams : ChildWrite(s)
    \/ ChildExit
    \/ \E s \in Streams : CopyRead(s)
    \/ \E s \in Streams : CopySend(s)
    \/ \E s \in Streams : CopyLive(s)
    \/ Encode

\* Every step of the program, its child and its callers.  A capture is over
\* within the millisecond: the clock moves between invocations and in the
\* pauses of a paced replay.
Next ==
    \/ Invoke
    \/ Steps

Spec == Init /\ [][Next]_vars

(* ------------------------------ the clock ------------------------------ *)
\* Time passes during a capture too.  The clock is read by every Write of a
\* producer (whole milliseconds since its previous Write), so it advances
\* where a Write is about to read it
Stamping(s) == cpc[s] = "read" /\ ~rdClosed[s] /\ pipe[s] # <<>>

Tick ==
    /\ Alive
    /\ now < MaxTicks
    /\ \E s \in Streams : Stamping(s)
    /\ now' = now + 1
    /\ UNCHANGED <<fsVars, runs, ctxVars, mainVars, outVars, replayVars, captureVars>>

\* a paced invocation (-delay) that never expires entries
InvokePaced == InvokeWith({NoTTL}, {TRUE}, BOOLEAN)

\* The program with a clock that advances while the producers write
NextClock ==
    \/ Tick
    \/ InvokePaced
    \/ Steps

SpecClock == Init /\ [][NextClock]_vars

(* ----------------------- a concurrent invocation ---------------------- *)
\* an invocation without -ttl and without -delay
InvokePlain == InvokeWith({NoTTL}, {FALSE}, BOOLEAN)

\* the condition of the if statement as an invocation started with -ttl t
\* evaluates it
FreshFor(t) == entry.exists /\ (t = NoTTL \/ Age <= t)

\* the running invocation is a capture session that has created the entry
\* file and has not yet flushed and closed it
Unfinished == mode = "capture" /\ linked /\ "f" \notin closed

\* Nothing keeps a second invocation for the same key from starting while the
\* first one runs (no lock, no lease, no temporary file): its os.Stat and its
\* ttl comparison see the entry file as it is at that moment
PeerLookup ==
    /\ Alive
    /\ peer = NoPeer
    /\ \E t \in TTLs :
        peer' = [found |-> IF FreshFor(t) THEN "fresh"
                           ELSE IF entry.exists THEN "stale" ELSE "absent",
                 final |-> ~Unfinished]
    /\ UNCHANGED <<now, fsVars, runs, flagVars, prev, mainVars, outVars,
                   replayVars, captureVars>>

\* The program with a second invocation for the key looking the entry up
NextPeer ==
    \/ PeerLookup
    \/ InvokePlain
    \/ Steps

SpecPeer == Init /\ [][NextPeer]_vars

(* --------------------------- fair scheduling --------------------------- *)
\* the steps of the main goroutine (the two channel operations included)
MainStep ==
    \/ Lookup
    \/ OpenEntry
    \/ DecodeRecord
    \/ DecodeEnd
    \/ DecodeNil
    \/ DeferGz
    \/ DeferF
    \/ handleExit
    \/ Create
    \/ \E s \in Streams : OpenTS(s)
    \/ StartOK
    \/ StartFail
    \/ RemoveOnStartFail
    \/ Spawn
    \/ Wait
    \/ RemoveNeg
    \/ SendExit
    \/ Finished

\* the steps of the goroutine that copies stream s
CopyStep(s) == CopyRead(s) \/ CopySend(s) \/ CopyLive(s)

\* The Go scheduler runs every goroutine that can take a step: main, the two
\* copy goroutines and plex.  Nothing is assumed of the child
Fairness ==
    /\ WF_vars(MainStep)
    /\ \A s \in Streams : WF_vars(CopyStep(s))
    /\ WF_vars(Encode)

NextFair ==
    \/ InvokePlain
    \/ Steps

SpecFair == Init /\ [][NextFair]_vars /\ Fairness

(* ------------------------------ properties ----------------------------- *)
RECURSIVE PayloadOf(_, _)
\* the bytes of the records of recs tagged id, in order
PayloadOf(recs, id) ==
    IF recs = <<>> THEN <<>>
    ELSE (IF Head(recs).Id = id THEN Head(recs).Buf ELSE <<>>) \o PayloadOf(Tail(recs), id)

HasExit(recs) == \E i \in 1..Len(recs) : recs[i].Id = ExitStatus

\* the position of the first ExitStatus record of recs
FirstExit(recs) ==
    CHOOSE i \in 1..Len(recs) :
        recs[i].Id = ExitStatus /\ \A j \in 1..(i - 1) : recs[j].Id # ExitStatus

IsPrefix(a, b) == Len(a) <= Len(b) /\ \A i \in 1..Len(a) : a[i] = b[i]

\* the records of producer s among order
OfProducer(order, s) == LET Test(r) == r.Id = s IN SelectSeq(order, Test)

\* main is past <-finished: the capture session has its result
AfterFinished == {"defer_gz", "defer_f", "handleExit", "exited"}

\* a replay that has ended by os.Exit of an entry that a capture session wrote
ReplayedCapture ==
    mode = "replay" /\ pc = "exited" /\ panicking = "Exit" /\ origin.kind = "capture"

\* C1: replaying the entry a capture session produced writes to stdout exactly
\* the bytes the child wrote to its stdout, and to stderr exactly the bytes the
\* child wrote to its stderr, whatever the interleaving of the copy
\* goroutines, plex and main was.
C1_RoundTrip ==
    ReplayedCapture => stdout = origin.out /\ stderr = origin.err

\* C2: the records written to the sink are StdOut/StdErr records followed by
\* at most one ExitStatus record, which is the last one in every state (so
\* nothing is written after it); once main is past <-finished the sink ends
\* with the one ExitStatus record, a kept entry holds exactly the sink, and a
\* child without output leaves exactly that one record.
C2_SinkShape ==
    /\ \A i \in 1..Len(sink) :
        /\ sink[i].Id \in {StdOut, StdErr, ExitStatus}
        /\ sink[i].Id = ExitStatus => i = Len(sink)
    /\ (mode = "capture" /\ pc \in AfterFinished) =>
        /\ sink # <<>>
        /\ sink[Len(sink)].Id = ExitStatus
        /\ Len(sink[Len(sink)].Buf) = 1
        /\ (childOut[StdOut] = <<>> /\ childOut[StdErr] = <<>>) => Len(sink) = 1
    /\ (mode = "capture" /\ pc = "exited" /\ entry.exists) =>
        entry.hdr /\ entry.recs = sink /\ entry.tail = "eof"

\* the session has ended with records in the sink while a copy goroutine is
\* still waiting to hand over a record that will never be written
C2_Witness ==
    /\ mode = "capture" /\ pc = "exited"
    /\ Len(sink) >= 2
    /\ \E s \in Streams : cpc[s] = "send"

\* C3: records are encoded in the order in which they were handed over on the
\* channel, each producer's records in the order that producer wrote them
\* (Write calls 1, 2, ...), and plex never holds two records at a time.
C3_EncodedInArrivalOrder ==
    /\ Len(pending) <= 1
    /\ IsPrefix(encOrder, handOrder)
    /\ Len(handOrder) = Len(encOrder) + Len(pending)
    /\ Len(sink) = Len(encOrder)
    /\ \A i \in 1..Len(sink) : sink[i].Id = encOrder[i].Id
    /\ \A s \in Streams :
        LET mine == OfProducer(encOrder, s)
        IN  \A k \in 1..Len(mine) : mine[k].seq = k

\* both producers have had records encoded, and a producer waits at the
\* channel while plex is encoding
C3_Witness ==
    /\ Len(encOrder) >= 2
    /\ \A s \in Streams : OfProducer(encOrder, s) # <<>>
    /\ ppc = "marshal"
    /\ \E s \in Streams : cpc[s] = "send"

\* C4: the payload encoded for a record is exactly the bytes that were passed
\* to the Write call that made the record.
C4_NoTornWrite ==
    \A i \in 1..Len(sink) : i <= Len(encOrder) => sink[i].Buf = encOrder[i].d

\* the whole seconds in e units of time, e >= 0
WholeSeconds(e) == CHOOSE k \in 0..e : k * Second <= e /\ e < (k + 1) * Second

\* C5: the lookup takes the replay path exactly when the entry exists and
\* ttl is -1 or the entry's age in whole seconds is at most ttl; in every other
\* case it takes the capture path.
C5_FreshIff ==
    pc \in {"open", "create"} =>
        /\ now >= entry.mtime
        /\ pc = "open" <=>
            /\ entry.exists
            /\ ttl = NoTTL \/ WholeSeconds(now - entry.mtime) <= ttl
        /\ pc = "open" <=> mode = "replay"
        /\ pc = "create" <=> mode = "capture"

\* an entry whose age equals a ttl of one second is replayed
C5_Witness ==
    pc = "open" /\ ttl = 1 /\ now - entry.mtime = Second

\* C6: after a capture whose child exited with a non-zero code, the entry
\* exists exactly when negative results are kept, and a later replay of the
\* kept entry exits with that code.
C6_NegativeResult ==
    /\ (mode = "capture" /\ pc = "exited" /\ started = "ok" /\ childStatus # 0) =>
        (entry.exists <=> keepNeg)
    /\ (ReplayedCapture /\ origin.code # 0) => status = origin.code

\* the entry of a child that exited with code 3 has been replayed
C6_Witness ==
    ReplayedCapture /\ origin.code = 3 /\ status = 3

\* C7: when the child failed to start, no entry exists at the end of the
\* capture session, also when the lookup had found a stale entry.
C7_StartFailNoEntry ==
    (mode = "capture" /\ started = "failed" /\ pc = "exited") => ~entry.exists

\* a session that found a stale entry and failed to start its child has ended
C7_Witness ==
    found = "stale" /\ started = "failed" /\ pc = "exited" /\ ~entry.exists

\* C8: after a failed start no record is handed over on the channel and none
\* is encoded into the sink.
C8_NothingCaptured ==
    started = "failed" => handOrder = <<>> /\ sink = <<>>

C10_NoExitRecord ==
    (mode = "replay" /\ panicking = "Exit" /\ ~HasExit(entry.recs)) =>
        /\ rpos = Len(entry.recs)
        /\ exitCode = 0
        /\ stdout = PayloadOf(entry.recs, StdOut)
        /\ stderr = PayloadOf(entry.recs, StdErr)
        /\ pc = "exited" => status = 0

\* a replay of two payload records followed by a decode error has exited
C10_Witness ==
    /\ mode = "replay" /\ pc = "exited" /\ panicking = "Exit"
    /\ ~HasExit(entry.recs) /\ Len(entry.recs) = 2 /\ entry.tail = "err"
    /\ stdout # <<>> /\ stderr # <<>>
    /\ status = 0

\* C11: a cache hit has no effect on the cache or on the command: no step of
\* an invocation whose lookup was Fresh changes the entry's content or its
\* last-modified time, none starts the child, the copy goroutines or plex, and
\* a replay that follows a replay of the entry writes the same bytes to stdout
\* and to stderr and exits with the same status as the one before it.
C11_CacheHitNoEffect ==
    [][ /\ found' = "fresh" =>
            /\ entry' = entry
            /\ child' = "none" /\ started' = "none"
            /\ ppc' = "off" /\ \A s \in Streams : cpc'[s] = "off"
        /\ (found' = "fresh" /\ pc' = "exited" /\ prev'.mode = "replay") =>
            /\ stdout' = prev'.out
            /\ stderr' = prev'.err
            /\ status' = prev'.status ]_vars

\* an entry with output and exit code 3 has been replayed twice
C11_Witness ==
    /\ found = "fresh" /\ pc = "exited" /\ prev.mode = "replay"
    /\ stdout # <<>> /\ status = 3
    /\ prev.out = stdout /\ prev.err = stderr /\ prev.status = 3

\* C12: for a child that exits with code c in 0..255 the capture session
\* exits with c, the ExitStatus record it leaves in the sink and in a retained
\* entry is the last record, with elapsed 0 and the one payload byte c, and a
\* replay of the retained entry exits with c.
C12_ExitCodeRoundTrip ==
    /\ (mode = "capture" /\ started = "ok" /\ pc \in AfterFinished) =>
        /\ childStatus \in 0..255
        /\ exitCode = childStatus
        /\ sink # <<>>
        /\ sink[Len(sink)] = BufRecord(0, ExitStatus, <<childStatus>>)
        /\ pc = "exited" => status = childStatus
    /\ (origin.kind = "capture" /\ entry.exists) =>
        /\ entry.recs # <<>>
        /\ entry.recs[Len(entry.recs)] = BufRecord(0, ExitStatus, <<origin.code>>)
    /\ ReplayedCapture => status = origin.code

\* the kept entry of a child that exited with code 255 has been replayed
C12_Witness ==
    /\ ReplayedCapture /\ origin.code = 255 /\ status = 255
    /\ entry.recs[Len(entry.recs)].Buf = <<255>>

\* C13: the process exits with its exit code only after both deferred closes
\* have run, the sink's (or the reader's) before the file's; in capture the
\* ExitStatus record is in the sink before plex signals, plex has signalled and
\* returned before the sink is closed, and nothing is closed before main has
\* panicked with its exit code.
C13_ExitAfterCleanup ==
    /\ (pc = "exited" /\ panicking = "Exit") =>
        closed = {"gz", "f"} /\ status = ExitStatusOf(exitCode)
    /\ pc # "exited" => status = 0
    /\ closed # {} => pc \in {"defer_f", "handleExit", "exited"} /\ panicking # "none"
    /\ ("f" \in closed /\ (mode = "capture" \/ gzOK)) => "gz" \in closed
    /\ mode = "capture" =>
        /\ ppc \in {"signal", "done"} =>
            sink # <<>> /\ sink[Len(sink)].Id = ExitStatus /\ pending = <<>>
        /\ pc \in AfterFinished <=> ppc = "done"
        /\ "gz" \in closed => ppc = "done"

\* a capture session has exited with code 3 after closing the sink and the
\* file, and left the entry with everything plex wrote
C13_Witness ==
    /\ mode = "capture" /\ pc = "exited" /\ closed = {"gz", "f"}
    /\ ppc = "done" /\ status = 3
    /\ entry.exists /\ entry.recs = sink /\ Len(sink) >= 3

\* C14: a replay of an entry that is empty, truncated or malformed ends by
\* exiting with its exit code, as at the end of the stream, and never by an
\* unrecovered panic.
C14_ReplayNeverCrashes ==
    (mode = "replay" /\ pc = "exited") =>
        /\ panicking = "Exit"
        /\ status = ExitStatusOf(exitCode)
        /\ closed = {"gz", "f"}

\* C15: under fair scheduling of the goroutines, a capture session whose
\* child has exited (or could not be started) comes to its end: main sends the
\* ExitStatus record, plex writes it and signals, and the process exits with
\* the exit code, whatever the copy goroutines are doing.
C15_CaptureTerminates ==
    (mode = "capture" /\ Alive /\ (child = "exited" \/ started = "failed"))
        ~> (/\ pc = "exited" /\ panicking = "Exit"
            /\ HasExit(sink) /\ ppc = "done"
            /\ status = ExitStatusOf(exitCode))

\* a capture session has exited while both copy goroutines were still waiting
\* to send a record on the channel
C15_Witness ==
    /\ mode = "capture" /\ pc = "exited" /\ ppc = "done"
    /\ \A s \in Streams : cpc[s] = "send"

\* the bytes the copy goroutine of stream s has read from its pipe
ReadOf(s) == Prefix(childOut[s], Len(childOut[s]) - Len(pipe[s]))

RECURSIVE Passed(_)
\* the bytes passed to the Write calls whose records are in order
Passed(order) == IF order = <<>> THEN <<>> ELSE Head(order).d \o Passed(Tail(order))

\* the bytes of the records of producer s that plex has accepted
AcceptedOf(s) == Passed(OfProducer(handOrder, s))

\* C16: what a capture session writes to its own stdout (stderr) is at every
\* moment a prefix of the bytes of the stdout (stderr) records plex has
\* accepted, and when the session has ended it is exactly the bytes the copy
\* goroutine read from the child's stdout (stderr) pipe.
C16_LivePassthrough ==
    (mode = "capture" /\ started = "ok") =>
        /\ IsPrefix(stdout, AcceptedOf(StdOut))
        /\ IsPrefix(stderr, AcceptedOf(StdErr))
        /\ pc = "exited" => stdout = ReadOf(StdOut) /\ stderr = ReadOf(StdErr)

\* the whole milliseconds in e units of time, e >= 0
WholeMs(e) == CHOOSE k \in 0..e : k * Millisecond <= e /\ e < (k + 1) * Millisecond

RECURSIVE SumT(_, _)
\* the sum of the elapsed values of the records of recs tagged id
SumT(recs, id) ==
    IF recs = <<>> THEN 0
    ELSE (IF Head(recs).Id = id THEN Head(recs).T ELSE 0) + SumT(Tail(recs), id)

\* the elapsed values of all records producer s has made so far, added up
ElapsedOf(s) ==
    SumT(sink, s) + SumT(pending, s) + (IF cpc[s] = "send" THEN crec[s].T ELSE 0)

\* C17: every Write of a producer makes a record whose elapsed value is the
\* whole milliseconds, never negative, between that producer's previous Write
\* (its creation, for the first) and this Write; the Write sets that
\* producer's clock to the time of the Write and leaves the other producer's
\* clock alone, and a producer's clock changes at no other step; the elapsed
\* values of a producer add up to no more than the time since its creation and
\* fall short of it by less than a millisecond a Write; the record is handed
\* over and encoded with the elapsed value it was made with; every ExitStatus
\* record is encoded with elapsed 0.
C17_PerProducerClocks ==
    [][ /\ \A s \in Streams :
            /\ cseq'[s] = cseq[s] + 1 =>
                /\ now >= ts[s]
                /\ crec'[s].T = WholeMs(now - ts[s])
                /\ crec'[s].T >= 0
                /\ crec'[s].Id = s
                /\ ts'[s] = now
                /\ \A o \in Streams \ {s} : ts'[o] = ts[o] /\ crec'[o] = crec[o]
                /\ ElapsedOf(s)' * Millisecond <= ts'[s]
                /\ ts'[s] < (ElapsedOf(s)' + cseq'[s]) * Millisecond
            /\ ts'[s] # ts[s] =>
                \/ cseq'[s] = cseq[s] + 1
                \/ pc = (IF s = StdOut THEN "opents1" ELSE "opents2")
                \/ pc' = "stat"
        /\ Len(pending') = Len(pending) + 1 =>
            \/ pending'[Len(pending')] = ExitRec
            \/ \E s \in Streams : cpc[s] = "send" /\ pending'[Len(pending')] = crec[s]
        /\ Len(sink') = Len(sink) + 1 =>
            /\ sink'[Len(sink')].T = Head(pending).T
            /\ sink'[Len(sink')].Id = Head(pending).Id
            /\ sink'[Len(sink')].Id = ExitStatus => sink'[Len(sink')].T = 0 ]_vars

\* stdout was written to a millisecond after the producers were made, stderr
\* within the first millisecond, and stdout again right after its first Write:
\* the stdout records have elapsed 1 and 0, the stderr record has elapsed 0
C17_Witness ==
    /\ Len(sink) >= 3
    /\ \E i, j, k \in 1..Len(sink) :
        /\ i < j
        /\ sink[i].Id = StdOut /\ sink[i].T = 1
        /\ sink[j].Id = StdOut /\ sink[j].T = 0
        /\ sink[k].Id = StdErr /\ sink[k].T = 0
    /\ ts[StdOut] = MaxTicks /\ ts[StdErr] < Millisecond

\* C18: the lookup of an invocation that runs concurrently with a capture
\* session for the same key never finds Fresh an entry that the session has
\* not yet flushed and closed.
C18_NoUnfinishedReplay ==
    peer.found = "fresh" => peer.final

\* C19: under fair scheduling, a capture session whose child could not be
\* started goes on to its end: without a child, it sends the ExitStatus record
\* with payload 0 as the only record, plex writes it and signals, the deferred
\* closes run, and the process exits with code 0.
C19_StartFailureRunsOn ==
    (started = "failed" /\ Alive)
        ~> (/\ started = "failed" /\ pc = "exited" /\ panicking = "Exit"
            /\ child = "none"
            /\ handOrder = <<[Id |-> ExitStatus, seq |-> 1, d |-> <<0>>]>>
            /\ sink = <<BufRecord(0, ExitStatus, <<0>>)>>
            /\ ppc = "done" /\ closed = {"gz", "f"}
            /\ exitCode = 0 /\ status = 0)

\* a session that found no entry and could not start its child has exited
\* with code 0 after plex wrote the ExitStatus record
C19_Witness ==
    /\ found = "absent" /\ started = "failed" /\ pc = "exited"
    /\ status = 0 /\ Len(sink) = 1 /\ ppc = "done"
    /\ stderr = StartFailedMsg

====
